---- MODULE Spec2Model ----
(***************************************************************************)
(* Model of the blog listing page of bluemotional/portal:                  *)
(*   src/app/[lang]/(home)/blog/page.tsx                                   *)
(* BlogHomePage with its pickAccentColor closure, and the visual helpers   *)
(* (hashString, getAccentColor, hexToRgb, rgbToHex, mixHexColors,          *)
(* hexToRgba).                                                             *)
(*                                                                         *)
(* A JavaScript string is a sequence of UTF-16 code units (integers).      *)
(* A JavaScript number too wide for a 32-bit TLC integer is a pair         *)
(* <<hi, lo>> that stands for hi * 65536 + lo, with lo in 0..65535.        *)
(***************************************************************************)
EXTENDS Integers, Sequences, FiniteSets, TLC

VARIABLES
    pc,                \* "idle": no pickAccentColor call is running; "loop": at the while test
    usedAccentColors,  \* the Set<string> of the running render
    frontmatter,       \* argument of the current / last pickAccentColor call
    offset,            \* local of pickAccentColor
    accent,            \* local of pickAccentColor; its value at "idle" is the last return value
    count,             \* pickAccentColor calls that have returned in this render
    usedBefore,        \* history: usedAccentColors when the current / last call began
    explicitSeen,      \* history: some call of this render had an accentColor field
    returned,          \* history: the values pickAccentColor has returned in this render
    posts,             \* blog.getPages(...): the posts in the order the collection gives them
    sortedPosts,       \* indices into posts, newest first
    featuredPost,      \* index into posts (0: undefined)
    standardPosts,     \* indices into posts
    rpc,               \* position of BlogHomePage ("off": the page is not modelled)
    cursor,            \* index of standardPosts.map
    assigned,          \* history: <<post, accentColor>> of every card of this render, in order
    prevAssigned,      \* history: assigned of the render before
    renders,           \* history: completed calls of BlogHomePage
    call,              \* the helper call under evaluation ([op |-> "none"] when none)
    ret                \* its return value

pickVars == <<pc, usedAccentColors, frontmatter, offset, accent, count, usedBefore, explicitSeen,
              returned>>
renderVars == <<posts, sortedPosts, featuredPost, standardPosts, rpc, cursor, assigned,
                prevAssigned, renders>>
pureVars == <<call, ret>>
vars == <<pickVars, renderVars, pureVars>>

-----------------------------------------------------------------------------
(* Bounds *)

\* picks made in one render of the open-ended pass
MaxItems == 11

\* posts in the collection of a rendered page
MaxPosts == 3

\* calls of BlogHomePage on the same collection
MaxRenders == 2

\* length of the enumerated keys of hashString
MaxKeyLen == 3

\* largest position handed to getAccentColor
MaxPosition == 12

\* length of the enumerated names of getInitials
MaxNameLen == 4

\* length of the enumerated titles of getPrimaryWords
MaxTitleLen == 4

\* length of the enumerated accentWords strings of getPrimaryWords
MaxOverrideLen == 4

-----------------------------------------------------------------------------
(* Strings and values *)

\* the value undefined (no string holds a negative code unit)
Undefined == <<-1>>

\* JavaScript truthiness of a string | undefined
Truthy(s) == s # Undefined /\ s # <<>>

\* '#'
Hash == 35

\* [0-9a-fA-F]
IsHexDigit(c) == (c >= 48 /\ c <= 57) \/ (c >= 97 /\ c <= 102) \/ (c >= 65 /\ c <= 70)

\* hexColorRegex.test(s): /^#(?:[0-9a-fA-F]{3}){1,2}$/
hexColorRegex(s) ==
    /\ s # Undefined
    /\ Len(s) \in {4, 7}
    /\ s[1] = Hash
    /\ \A i \in 2..Len(s) : IsHexDigit(s[i])

accentPalette == <<
    <<35, 102, 57, 55, 51, 49, 54>>,    \* '#f97316'
    <<35, 54, 51, 54, 54, 102, 49>>,    \* '#6366f1'
    <<35, 101, 99, 52, 56, 57, 57>>,    \* '#ec4899'
    <<35, 49, 48, 98, 57, 56, 49>>,     \* '#10b981'
    <<35, 102, 97, 99, 99, 49, 53>>,    \* '#facc15'
    <<35, 48, 101, 97, 53, 101, 57>>,   \* '#0ea5e9'
    <<35, 99, 48, 56, 52, 102, 99>>,    \* '#c084fc'
    <<35, 102, 98, 55, 49, 56, 53>>,    \* '#fb7185'
    <<35, 49, 52, 98, 56, 97, 54>>,     \* '#14b8a6'
    <<35, 102, 98, 98, 102, 50, 52>> >> \* '#fbbf24'

\* accentPalette.length
paletteSize == Len(accentPalette)

PaletteColors == {accentPalette[i] : i \in 1..paletteSize}

-----------------------------------------------------------------------------
(* Wide integers: <<hi, lo>> stands for hi * 65536 + lo *)

Word == 65536

Norm(hi, lo) == <<hi + (lo \div Word), lo % Word>>

\* ToInt32: wrap modulo 2^32 into -2^31 .. 2^31 - 1 (the operand of << and of | 0)
ToInt32(x) == <<((x[1] + 32768) % Word) - 32768, x[2]>>

\* hash << 5: the product wrapped as ToInt32 wraps it
ShiftLeft5(x) == ToInt32(Norm(x[1] * 32, x[2] * 32))

\* Math.abs
MathAbs(x) == IF x[1] < 0 THEN Norm(0 - x[1], 0 - x[2]) ELSE x

\* x % n for x >= 0 and a small n > 0
WideMod(x, n) == (((x[1] % n) * (Word % n)) + (x[2] % n)) % n

\* one turn of the for loop of hashString:
\*   hash = (hash << 5) - hash + value.charCodeAt(index); hash |= 0
HashStepNoWrap(hash, c) ==
    LET shifted == ShiftLeft5(hash)
    IN  Norm(shifted[1] - hash[1], shifted[2] - hash[2] + c)
HashStep(hash, c) ==
    LET shifted == ShiftLeft5(hash)
    IN  ToInt32(Norm(shifted[1] - hash[1], shifted[2] - hash[2] + c))

\* the for loop of hashString from index on (the test next[2] >= 0 always holds: with it
\* TLC evaluates one turn's hash before the next turn begins)
RECURSIVE HashLoop(_, _, _)
HashLoop(value, index, hash) ==
    IF index > Len(value) THEN hash
    ELSE LET next == HashStep(hash, value[index])
         IN  IF next[2] >= 0 THEN HashLoop(value, index + 1, next) ELSE next

hashString(value) == MathAbs(HashLoop(value, 1, <<0, 0>>))

-----------------------------------------------------------------------------
(* getAccentColor *)

getAccentColorLower(preferred, key, position) ==
    IF Truthy(preferred) /\ hexColorRegex(preferred)
    THEN [i \in 1..Len(preferred) |->
            IF preferred[i] >= 65 /\ preferred[i] <= 70 THEN preferred[i] + 32
            ELSE preferred[i]]
    ELSE accentPalette[((WideMod(hashString(key), paletteSize) + position) % paletteSize) + 1]

getAccentColorNoOffset(preferred, key, position) ==
    IF Truthy(preferred) /\ hexColorRegex(preferred)
    THEN preferred
    ELSE accentPalette[(WideMod(hashString(key), paletteSize) % paletteSize) + 1]

getAccentColor(preferred, key, position) ==
    IF Truthy(preferred) /\ hexColorRegex(preferred)
    THEN preferred
    ELSE accentPalette[((WideMod(hashString(key), paletteSize) + position) % paletteSize) + 1]

-----------------------------------------------------------------------------
(* pickAccentColor *)

\* if (frontmatter.accentColor)
IsExplicitNever(fm) == FALSE
IsExplicit(fm) == Truthy(fm.accentColor)

\* the while test
WhileCondOneMore(used, acc, off) == acc \in used /\ off < paletteSize
WhileCondOneLess(used, acc, off) == acc \in used /\ off < paletteSize - 2
WhileCond(used, acc, off) == acc \in used /\ off < paletteSize - 1

\* the variant that drops what the set held
SetAddAlone(used, value) == {value}

\* usedAccentColors.add(accent)
SetAdd(used, value) == used \cup {value}

\* entry of pickAccentColor up to the first return or the first while test
PickStart(fm) ==
    /\ pc = "idle"
    /\ frontmatter' = fm
    /\ offset' = 0
    /\ accent' = getAccentColor(fm.accentColor, fm.title, 0)
    /\ usedBefore' = usedAccentColors
    /\ explicitSeen' = (explicitSeen \/ fm.accentColor # Undefined)
    /\ IF IsExplicit(fm)
       THEN /\ usedAccentColors' = SetAdd(usedAccentColors, accent')
            /\ returned' = returned \cup {accent'}
            /\ pc' = "idle"
            /\ count' = count + 1
       ELSE /\ pc' = "loop"
            /\ UNCHANGED <<usedAccentColors, count, returned>>
    /\ UNCHANGED pureVars

\* one turn of the while loop
LoopStep ==
    /\ pc = "loop"
    /\ WhileCond(usedAccentColors, accent, offset)
    /\ offset' = offset + 1
    /\ accent' = getAccentColor(Undefined, frontmatter.title, offset')
    /\ UNCHANGED <<pc, usedAccentColors, frontmatter, count, usedBefore, explicitSeen, returned>>
    /\ UNCHANGED <<renderVars, pureVars>>

\* the while test fails: add and return
LoopExit ==
    /\ pc = "loop"
    /\ ~WhileCond(usedAccentColors, accent, offset)
    /\ usedAccentColors' = SetAdd(usedAccentColors, accent)
    /\ returned' = returned \cup {accent}
    /\ pc' = "idle"
    /\ count' = count + 1
    /\ UNCHANGED <<frontmatter, offset, accent, usedBefore, explicitSeen>>
    /\ UNCHANGED <<renderVars, pureVars>>

\* const usedAccentColors = new Set<string>(), given the set of the render before
KeepUsedSet(old) == old
FreshUsedSet(old) == {}

\* a call of BlogHomePage begins (the posts of the open-ended pass are drawn pick by pick)
NewRender ==
    /\ pc = "idle"
    /\ count > 0
    /\ usedAccentColors' = FreshUsedSet(usedAccentColors)
    /\ count' = 0
    /\ usedBefore' = {}
    /\ explicitSeen' = FALSE
    /\ returned' = {}
    /\ UNCHANGED <<pc, frontmatter, offset, accent>>
    /\ UNCHANGED <<renderVars, pureVars>>

-----------------------------------------------------------------------------
(* Inputs of the open-ended render pass *)

Titles == {
    <<97>>,                       \* 'a'      hash 97,       palette index 7
    <<107>>,                      \* 'k'      hash 107,      palette index 7
    <<97, 98>>,                   \* 'ab'     hash 3105,     palette index 5
    <<72, 101, 108, 108, 111>> }  \* 'Hello'  hash 69609650, palette index 0

AccentColors == {
    Undefined,
    <<>>,                              \* ''
    <<114, 101, 100>>,                 \* 'red'
    <<35, 102, 98, 55, 49, 56, 53>>,   \* '#fb7185' (palette index 7)
    <<35, 70, 70, 70>> }               \* '#FFF'

Frontmatters == [title : Titles, accentColor : AccentColors]

NoCall == [op |-> "none"]

Init ==
    /\ pc = "idle"
    /\ usedAccentColors = {}
    /\ frontmatter = [title |-> <<>>, accentColor |-> Undefined]
    /\ offset = 0
    /\ accent = <<>>
    /\ count = 0
    /\ usedBefore = {}
    /\ explicitSeen = FALSE
    /\ returned = {}
    /\ posts = <<>>
    /\ sortedPosts = <<>>
    /\ featuredPost = 0
    /\ standardPosts = <<>>
    /\ rpc = "off"
    /\ cursor = 0
    /\ assigned = <<>>
    /\ prevAssigned = <<>>
    /\ renders = 0
    /\ call = NoCall
    /\ ret = <<>>

Pick == \E fm \in Frontmatters : count < MaxItems /\ PickStart(fm) /\ UNCHANGED renderVars

Next ==
    \/ Pick
    \/ LoopStep
    \/ LoopExit
    \/ NewRender

Spec == Init /\ [][Next]_vars

\* LoopStep without the value of accent': every LoopStep step is a LoopTurn step, every
\* LoopTurn step of Next is a LoopStep step, and the two are enabled in the same states
\* (the fairness condition is stated on an action free of recursive operators)
LoopTurn ==
    /\ pc = "loop"
    /\ WhileCond(usedAccentColors, accent, offset)
    /\ offset' = offset + 1
    /\ accent' \in PaletteColors
    /\ UNCHANGED <<pc, usedAccentColors, frontmatter, count, usedBefore, explicitSeen, returned>>
    /\ UNCHANGED <<renderVars, pureVars>>

\* the page runs on: a started while loop keeps taking turns until its test fails
FairSpec == Spec /\ WF_vars(LoopTurn) /\ WF_vars(LoopExit)

-----------------------------------------------------------------------------
(* BlogHomePage on a collection of posts *)

\* what blog.getPages may hold: the frontmatter fields the page reads (date as a time value)
PostPool == {
    [title |-> <<97>>,  accentColor |-> Undefined, date |-> 2, featured |-> FALSE],
    [title |-> <<97>>,  accentColor |-> Undefined, date |-> 1, featured |-> TRUE],
    [title |-> <<107>>, accentColor |-> Undefined, date |-> 1, featured |-> FALSE],
    [title |-> <<107>>, accentColor |-> Undefined, date |-> 3, featured |-> TRUE],
    [title |-> <<72, 101, 108, 108, 111>>, accentColor |-> Undefined, date |-> 2,
     featured |-> FALSE],
    [title |-> <<97>>,  accentColor |-> <<35, 102, 98, 55, 49, 56, 53>>, date |-> 3,
     featured |-> FALSE],
    [title |-> <<107>>, accentColor |-> <<35, 49, 52, 98, 56, 97, 54>>, date |-> 1,
     featured |-> FALSE],
    [title |-> <<97>>,  accentColor |-> <<114, 101, 100>>, date |-> 2, featured |-> FALSE] }

PostLists == UNION {[1..n -> PostPool] : n \in 0..MaxPosts}

\* [...ids].sort((a, b) => dateB - dateA): Array.prototype.sort is stable, so a post goes
\* behind every post that is not older than it
RECURSIVE InsertByDate(_, _, _)
InsertByDate(ps, sorted, id) ==
    IF sorted = <<>> THEN <<id>>
    ELSE IF ps[Head(sorted)].date >= ps[id].date
         THEN <<Head(sorted)>> \o InsertByDate(ps, Tail(sorted), id)
         ELSE <<id>> \o sorted

RECURSIVE SortPrefix(_, _)
SortPrefix(ps, n) ==
    IF n = 0 THEN <<>> ELSE InsertByDate(ps, SortPrefix(ps, n - 1), n)

SortByDateDesc(ps) == SortPrefix(ps, Len(ps))

\* the variant that takes the first post whatever its flag
FindFeaturedFirst(ps, sorted) == IF sorted # <<>> THEN sorted[1] ELSE 0

\* sortedPosts.find(p => p.data.featured === true) ?? sortedPosts[0]   (0: undefined)
FindFeatured(ps, sorted) ==
    LET flagged == {i \in 1..Len(sorted) : ps[sorted[i]].featured = TRUE}
    IN  IF flagged # {} THEN sorted[CHOOSE i \in flagged : \A j \in flagged : i <= j]
        ELSE IF sorted # <<>> THEN sorted[1]
        ELSE 0

\* sortedPosts.filter(p => p !== featuredPost)
FilterStandard(sorted, featured) == SelectSeq(sorted, LAMBDA id : id # featured)

Frontmatter(ps, id) == [title |-> ps[id].title, accentColor |-> ps[id].accentColor]

\* BlogHomePage from its entry to the JSX: sort, featured, standard, a new used-set
RenderBegin ==
    /\ rpc = "begin"
    /\ pc = "idle"
    /\ renders < MaxRenders
    /\ sortedPosts' = SortByDateDesc(posts)
    /\ featuredPost' = FindFeatured(posts, sortedPosts')
    /\ standardPosts' = FilterStandard(sortedPosts', featuredPost')
    /\ usedAccentColors' = FreshUsedSet(usedAccentColors)
    /\ count' = 0
    /\ usedBefore' = {}
    /\ explicitSeen' = FALSE
    /\ returned' = {}
    /\ prevAssigned' = assigned
    /\ assigned' = <<>>
    /\ cursor' = 0
    /\ rpc' = "featured"
    /\ UNCHANGED <<pc, frontmatter, offset, accent, posts, renders, pureVars>>

\* {featuredPost && (() => { ... pickAccentColor(frontmatter) ... })()}
CallFeatured ==
    /\ rpc = "featured"
    /\ IF featuredPost # 0
       THEN /\ PickStart(Frontmatter(posts, featuredPost))
            /\ rpc' = "featuredCard"
       ELSE /\ rpc' = "standard"
            /\ UNCHANGED pickVars
            /\ UNCHANGED pureVars
    /\ cursor' = 1
    /\ UNCHANGED <<posts, sortedPosts, featuredPost, standardPosts, assigned, prevAssigned,
                   renders>>

\* const accentColor = <the value pickAccentColor returned>, of the featured card
CardFeatured ==
    /\ rpc = "featuredCard"
    /\ pc = "idle"
    /\ assigned' = Append(assigned, <<featuredPost, accent>>)
    /\ rpc' = "standard"
    /\ UNCHANGED <<posts, sortedPosts, featuredPost, standardPosts, cursor, prevAssigned,
                   renders, pickVars, pureVars>>

\* standardPosts.map((post) => { ... pickAccentColor(frontmatter) ... })
CallStandard ==
    /\ rpc = "standard"
    /\ cursor <= Len(standardPosts)
    /\ PickStart(Frontmatter(posts, standardPosts[cursor]))
    /\ rpc' = "standardCard"
    /\ UNCHANGED <<posts, sortedPosts, featuredPost, standardPosts, cursor, assigned,
                   prevAssigned, renders>>

\* const accentColor = <the value pickAccentColor returned>, of a standard card
CardStandard ==
    /\ rpc = "standardCard"
    /\ pc = "idle"
    /\ assigned' = Append(assigned, <<standardPosts[cursor], accent>>)
    /\ cursor' = cursor + 1
    /\ rpc' = "standard"
    /\ UNCHANGED <<posts, sortedPosts, featuredPost, standardPosts, prevAssigned, renders,
                   pickVars, pureVars>>

\* the page is returned; the next request renders the same collection again
RenderEnd ==
    /\ rpc = "standard"
    /\ cursor > Len(standardPosts)
    /\ renders' = renders + 1
    /\ rpc' = "begin"
    /\ UNCHANGED <<posts, sortedPosts, featuredPost, standardPosts, cursor, assigned,
                   prevAssigned, pickVars, pureVars>>

InitRender ==
    /\ pc = "idle"
    /\ usedAccentColors = {}
    /\ frontmatter = [title |-> <<>>, accentColor |-> Undefined]
    /\ offset = 0
    /\ accent = <<>>
    /\ count = 0
    /\ usedBefore = {}
    /\ explicitSeen = FALSE
    /\ returned = {}
    /\ posts \in PostLists
    /\ sortedPosts = <<>>
    /\ featuredPost = 0
    /\ standardPosts = <<>>
    /\ rpc = "begin"
    /\ cursor = 0
    /\ assigned = <<>>
    /\ prevAssigned = <<>>
    /\ renders = 0
    /\ call = NoCall
    /\ ret = <<>>

NextRender ==
    \/ RenderBegin
    \/ CallFeatured
    \/ CardFeatured
    \/ CallStandard
    \/ CardStandard
    \/ RenderEnd
    \/ LoopStep
    \/ LoopExit

SpecRender == InitRender /\ [][NextRender]_vars

-----------------------------------------------------------------------------
(* Colour math.  A fractional number (weight, alpha, mixed channel) is held *)
(* as its count of quarters, a channel of RGB as a plain integer.  Every    *)
(* multiple of 1/4 in range is exact in double arithmetic.                  *)

\* the number 1, in quarters
One == 4

\* hexToRgb's null
Null == [null |-> TRUE]

\* clamp(value, min, max): Math.min(Math.max(value, min), max)
clamp(value, min, max) ==
    LET hi == IF value > min THEN value ELSE min
    IN  IF hi < max THEN hi ELSE max

\* Math.round of a number given in quarters: floor(x + 1/2)
MathRound(q) == (q + 2) \div One

\* value of a hex digit of parseInt(_, 16); 0 for any other code unit
DigitValue(c) ==
    IF c >= 48 /\ c <= 57 THEN c - 48
    ELSE IF c >= 97 /\ c <= 102 THEN c - 87
    ELSE IF c >= 65 /\ c <= 70 THEN c - 55
    ELSE 0

\* parseInt(digits, 16) on a string of hex digits
RECURSIVE ParseInt16(_, _, _)
ParseInt16(digits, index, acc) ==
    IF index > Len(digits) THEN acc
    ELSE ParseInt16(digits, index + 1, acc * 16 + DigitValue(digits[index]))

\* the body of hexToRgb below its regex test
ParseHex(hex) ==
    LET sliced == SubSeq(hex, 2, Len(hex))
        normalized == IF Len(sliced) = 3
                      THEN <<sliced[1], sliced[1], sliced[2], sliced[2], sliced[3], sliced[3]>>
                      ELSE sliced
        intValue == ParseInt16(normalized, 1, 0)
    IN  [r |-> (intValue \div 65536) % 256,
         g |-> (intValue \div 256) % 256,
         b |-> intValue % 256]

hexToRgbLoose(hex) ==
    IF ~(hex # Undefined /\ Len(hex) \in 4..7 /\ hex[1] = Hash) THEN Null ELSE ParseHex(hex)

hexToRgb(hex) ==
    IF ~hexColorRegex(hex) THEN Null ELSE ParseHex(hex)

\* one digit of Number.prototype.toString(16)
HexDigit(n) == IF n < 10 THEN 48 + n ELSE 87 + n

\* clamped.toString(16) for 0 <= clamped <= 255
ToString16(n) == IF n < 16 THEN <<HexDigit(n)>> ELSE <<HexDigit(n \div 16), HexDigit(n % 16)>>

\* componentToHex of a component given in quarters
componentToHexNoPad(component) == ToString16(clamp(MathRound(component), 0, 255))
componentToHex(component) ==
    LET clamped == clamp(MathRound(component), 0, 255)
        hex == ToString16(clamped)
    IN  IF Len(hex) = 1 THEN <<48>> \o hex ELSE hex

\* rgbToHex of channels given in quarters
rgbToHex(rgb) == <<Hash>> \o componentToHex(rgb.r) \o componentToHex(rgb.g) \o componentToHex(rgb.b)

\* mixHexColors, weight in quarters
mixHexColors(color, mixWith, weight) ==
    LET ratio == clamp(weight, 0, One)
        rgbBase == hexToRgb(color)
        rgbMix == hexToRgb(mixWith)
    IN  IF rgbBase = Null \/ rgbMix = Null
        THEN color
        ELSE rgbToHex([r |-> rgbBase.r * (One - ratio) + rgbMix.r * ratio,
                       g |-> rgbBase.g * (One - ratio) + rgbMix.g * ratio,
                       b |-> rgbBase.b * (One - ratio) + rgbMix.b * ratio])

\* String(n) for an integer 0 <= n <= 255
IntToString(n) ==
    IF n < 10 THEN <<48 + n>>
    ELSE IF n < 100 THEN <<48 + (n \div 10), 48 + (n % 10)>>
    ELSE <<48 + (n \div 100), 48 + ((n \div 10) % 10), 48 + (n % 10)>>

\* String(x) for x in {0, 0.25, 0.5, 0.75, 1}, given in quarters
QuarterToString(q) ==
    CASE q = 0 -> <<48>>                  \* '0'
      [] q = 1 -> <<48, 46, 50, 53>>      \* '0.25'
      [] q = 2 -> <<48, 46, 53>>          \* '0.5'
      [] q = 3 -> <<48, 46, 55, 53>>      \* '0.75'
      [] q = 4 -> <<49>>                  \* '1'

\* hexToRgba, alpha in quarters
hexToRgba(color, alpha) ==
    LET rgb == hexToRgb(color)
        clampedAlpha == clamp(alpha, 0, One)
        sep == <<44, 32>>                 \* ', '
    IN  IF rgb = Null
        THEN color
        ELSE <<114, 103, 98, 97, 40>>     \* 'rgba('
             \o IntToString(rgb.r) \o sep \o IntToString(rgb.g) \o sep
             \o IntToString(rgb.b) \o sep \o QuarterToString(clampedAlpha)
             \o <<41>>                    \* ')'

-----------------------------------------------------------------------------
(* Text derivation *)

\* the code units String.prototype.trim removes and \s matches: WhiteSpace and LineTerminator
WhiteSpace ==
    {9, 10, 11, 12, 13, 32, 160, 5760, 8232, 8233, 8239, 8287, 12288, 65279} \cup (8192..8202)

\* value.trim()
Trim(s) ==
    LET kept == {i \in 1..Len(s) : s[i] \notin WhiteSpace}
    IN  IF kept = {} THEN <<>>
        ELSE SubSeq(s, CHOOSE i \in kept : \A j \in kept : i <= j,
                       CHOOSE i \in kept : \A j \in kept : i >= j)

\* s.split(re) from index i on, cur being the piece under way, for a pattern re that matches
\* one code unit of seps (runs = FALSE) or a run of them (runs = TRUE): each match ends a
\* piece, also an empty one at either end of s
RECURSIVE SplitFrom(_, _, _, _, _)
SplitFrom(s, seps, runs, i, cur) ==
    IF i > Len(s) THEN <<cur>>
    ELSE IF s[i] \in seps
         THEN IF runs /\ i > 1 /\ s[i - 1] \in seps
              THEN SplitFrom(s, seps, runs, i + 1, cur)
              ELSE <<cur>> \o SplitFrom(s, seps, runs, i + 1, <<>>)
         ELSE SplitFrom(s, seps, runs, i + 1, Append(cur, s[i]))

\* s.split(/[seps]+/)
Split(s, seps) == SplitFrom(s, seps, TRUE, 1, <<>>)

\* s.split(/[seps]/)
SplitEach(s, seps) == SplitFrom(s, seps, FALSE, 1, <<>>)

\* .filter(Boolean) on strings, .filter((item) => item.length > 0)
FilterNonEmpty(pieces) == SelectSeq(pieces, LAMBDA w : w # <<>>)

\* w.charAt(i), i counted from 0: '' past the end
CharAt(w, i) == IF i + 1 <= Len(w) THEN <<w[i + 1]>> ELSE <<>>

\* toUpperCase of one code unit of the Basic Latin and Latin-1 blocks (full case mapping:
\* U+00DF becomes 'SS'); the code units of other blocks used here have no upper case
UpperOf(c) ==
    IF c >= 97 /\ c <= 122 THEN <<c - 32>>
    ELSE IF c = 223 THEN <<83, 83>>
    ELSE IF c = 181 THEN <<924>>
    ELSE IF c = 255 THEN <<376>>
    ELSE IF c >= 224 /\ c <= 254 /\ c # 247 THEN <<c - 32>>
    ELSE <<c>>

\* s.toUpperCase()
RECURSIVE ToUpperCase(_)
ToUpperCase(s) == IF s = <<>> THEN <<>> ELSE UpperOf(Head(s)) \o ToUpperCase(Tail(s))

\* 'TEN'
InitialsFallback == <<84, 69, 78>>

getInitials(value) ==
    LET trimmed == Trim(value)
        words == FilterNonEmpty(Split(trimmed, WhiteSpace))
    IN  IF trimmed = <<>> THEN InitialsFallback
        ELSE IF Len(words) = 1
             THEN LET firstWord == words[1]
                      first == CharAt(firstWord, 0)
                      second == IF CharAt(firstWord, 1) # <<>> THEN CharAt(firstWord, 1)
                                ELSE CharAt(firstWord, 0)
                  IN  ToUpperCase(first \o second)
             ELSE ToUpperCase(CharAt(words[1], 0) \o CharAt(words[2], 0))

\* override?: string | string[]
NoOverride == [kind |-> "undefined"]
StringOverride(s) == [kind |-> "string", value |-> s]
ArrayOverride(items) == [kind |-> "array", items |-> items]

\* !override: undefined and '' are falsy, an array never is
Falsy(override) ==
    \/ override.kind = "undefined"
    \/ override.kind = "string" /\ override.value = <<>>

\* '|', ',' and line feed
OverrideSeparators == {124, 44, 10}

\* the variant that keeps the pieces as they are written
parseAccentWordsNoTrim(override) ==
    IF Falsy(override) THEN <<>>
    ELSE LET toWords == IF override.kind = "array" THEN override.items
                        ELSE Split(override.value, OverrideSeparators)
         IN  FilterNonEmpty(toWords)

parseAccentWords(override) ==
    IF Falsy(override) THEN <<>>
    ELSE LET toWords == IF override.kind = "array" THEN override.items
                        ELSE Split(override.value, OverrideSeparators)
         IN  FilterNonEmpty([i \in DOMAIN toWords |-> Trim(toWords[i])])

\* hyphen-minus, en dash, em dash
Dashes == {45, 8211, 8212}

\* ['TEN', 'Blog']
WordsFallback == <<<<84, 69, 78>>, <<66, 108, 111, 103>>>>

getPrimaryWords(value, override) ==
    LET parsedOverride == parseAccentWords(override)
        trimmed == Trim(value)
        words == FilterNonEmpty(Split(trimmed, WhiteSpace))
    IN  IF Len(parsedOverride) > 0
        THEN <<parsedOverride[1], IF Len(parsedOverride) >= 2 THEN parsedOverride[2] ELSE <<>>>>
        ELSE IF trimmed = <<>> THEN WordsFallback
        ELSE IF Len(words) = 1
             THEN LET single == words[1]
                      parts == FilterNonEmpty(SplitEach(single, Dashes))
                  IN  IF Len(parts) >= 2 THEN <<parts[1], parts[2]>> ELSE <<single, <<>>>>
             ELSE <<words[1], words[2]>>

-----------------------------------------------------------------------------
(* The helpers called on their own *)

KeyAlphabet == {97, 45, 65535}   \* 'a', '-', U+FFFF

ShortKeys == UNION {[1..n -> KeyAlphabet] : n \in 0..MaxKeyLen}

EdgeKeys == {
    <<72, 101, 108, 108, 111>>,                                   \* 'Hello'
    <<120, 102, 106, 102, 120, 116, 102>>,                        \* 'xfjfxtf': wraps to -2^31
    <<83, 101, 108, 102, 45, 68, 114, 105, 118, 105, 110, 103>>,  \* 'Self-Driving'
    <<66, 117, 105, 108, 100, 105, 110, 103, 32, 118, 111, 105, 99, 101, 32,
      97, 103, 101, 110, 116, 115>>,                              \* 'Building voice agents': wraps negative
    <<97, 65535, 65535, 65535, 65535, 97>> }

HashKeys == ShortKeys \cup EdgeKeys

PreferredInputs == {
    Undefined,
    <<>>,                                   \* ''
    <<114, 101, 100>>,                      \* 'red'
    <<35, 102, 98, 55, 49, 56, 53>>,        \* '#fb7185'
    <<35, 70, 70, 70>>,                     \* '#FFF'
    <<35, 65, 98, 67, 100, 69, 102>>,       \* '#AbCdEf'
    <<35, 102, 102>>,                       \* '#ff'
    <<35, 102, 102, 102, 102>>,             \* '#ffff'
    <<35, 49, 50, 51, 52, 53, 103>>,        \* '#12345g'
    <<35, 102, 102, 102, 102, 102, 102, 102>>,  \* '#fffffff'
    <<35, 102, 102, 102, 10>>,              \* '#fff\n'
    <<102, 102, 102, 102>> }                \* 'ffff'

HexInputs ==
    (PreferredInputs \ {Undefined}) \cup PaletteColors \cup
    { <<110, 111, 116, 45, 97, 45, 99, 111, 108, 111, 114>>,   \* 'not-a-color'
      <<35, 48, 48, 48, 48, 48, 48>>,                          \* '#000000'
      <<35, 48, 97, 48, 98, 48, 99>> }                         \* '#0a0b0c'

MixInputs == {
    <<35, 70, 70, 70>>,                     \* '#FFF'
    <<35, 48, 48, 48, 48, 48, 48>>,         \* '#000000'
    <<35, 102, 98, 55, 49, 56, 53>>,        \* '#fb7185'
    <<114, 101, 100>>,                      \* 'red'
    <<>>,                                   \* ''
    <<35, 102, 102, 102, 102>>,             \* '#ffff'
    <<110, 111, 116, 45, 97, 45, 99, 111, 108, 111, 114>> }    \* 'not-a-color'

\* weights and alphas, in quarters: -0.25 .. 1.25
Weights == (0 - 1)..(One + 1)

ChannelEdges == {0, 10, 15, 16, 255}
ChannelsOutOfRange == {0 - 1, 256, 300}

RgbInputs ==
    {[r |-> x, g |-> y, b |-> z] : x \in 0..255, y \in ChannelEdges, z \in ChannelEdges}
    \cup {[r |-> y, g |-> x, b |-> z] : x \in 0..255, y \in ChannelEdges, z \in ChannelEdges}
    \cup {[r |-> y, g |-> z, b |-> x] : x \in 0..255, y \in ChannelEdges, z \in ChannelEdges}
    \cup {[r |-> x, g |-> y, b |-> z] : x \in ChannelsOutOfRange, y \in ChannelsOutOfRange,
                                         z \in ChannelEdges}

\* an integer channel as a number in quarters
Quarters(rgb) == [r |-> rgb.r * One, g |-> rgb.g * One, b |-> rgb.b * One]

CallHashString ==
    /\ call = NoCall
    /\ \E value \in HashKeys :
        /\ call' = [op |-> "hashString", value |-> value]
        /\ ret' = hashString(value)
    /\ UNCHANGED <<pickVars, renderVars>>

CallGetAccentColor ==
    /\ call = NoCall
    /\ \E preferred \in PreferredInputs, key \in Titles \cup EdgeKeys, position \in 0..MaxPosition :
        /\ call' = [op |-> "getAccentColor", preferred |-> preferred, key |-> key,
                    position |-> position]
        /\ ret' = getAccentColor(preferred, key, position)
    /\ UNCHANGED <<pickVars, renderVars>>

CallHexToRgb ==
    /\ call = NoCall
    /\ \E hex \in HexInputs :
        /\ call' = [op |-> "hexToRgb", hex |-> hex]
        /\ ret' = hexToRgb(hex)
    /\ UNCHANGED <<pickVars, renderVars>>

CallRgbToHex ==
    /\ call = NoCall
    /\ \E rgb \in RgbInputs :
        /\ call' = [op |-> "rgbToHex", rgb |-> rgb]
        /\ ret' = rgbToHex(Quarters(rgb))
    /\ UNCHANGED <<pickVars, renderVars>>

CallMixHexColors ==
    /\ call = NoCall
    /\ \E color \in MixInputs, mixWith \in MixInputs, weight \in Weights :
        /\ call' = [op |-> "mixHexColors", color |-> color, mixWith |-> mixWith,
                    weight |-> weight]
        /\ ret' = mixHexColors(color, mixWith, weight)
    /\ UNCHANGED <<pickVars, renderVars>>

CallHexToRgba ==
    /\ call = NoCall
    /\ \E color \in HexInputs, alpha \in Weights :
        /\ call' = [op |-> "hexToRgba", color |-> color, alpha |-> alpha]
        /\ ret' = hexToRgba(color, alpha)
    /\ UNCHANGED <<pickVars, renderVars>>

NameAlphabet == {106, 68, 32, 9, 223, 22242}   \* 'j', 'D', ' ', tab, U+00DF, U+56E2

ShortNames == UNION {[1..n -> NameAlphabet] : n \in 0..MaxNameLen}

EdgeNames == {
    <<74, 97, 110, 101, 32, 68, 111, 101>>,           \* 'Jane Doe'
    <<84, 69, 78, 32, 22242, 38431>>,                 \* 'TEN ' U+56E2 U+961F (the fallback author)
    <<32, 97, 100, 97, 32, 32, 109, 32, 108, 32>> }   \* ' ada  m l '

CallGetInitials ==
    /\ call = NoCall
    /\ \E value \in ShortNames \cup EdgeNames :
        /\ call' = [op |-> "getInitials", value |-> value]
        /\ ret' = getInitials(value)
    /\ UNCHANGED <<pickVars, renderVars>>

TitleAlphabet == {97, 66, 32, 45, 8211}   \* 'a', 'B', ' ', '-', en dash

ShortTitles == UNION {[1..n -> TitleAlphabet] : n \in 0..MaxTitleLen}

EdgeTitles == {
    <<83, 101, 108, 102, 45, 68, 114, 105, 118, 105, 110, 103>>,   \* 'Self-Driving'
    <<97, 8212, 8212, 98, 45, 99>>,                                \* 'a' em dash em dash 'b-c'
    <<32, 72, 105, 32, 9, 116, 111, 45, 97, 32, 121, 111, 117>> }  \* ' Hi ' tab 'to-a you'

OverrideAlphabet == {120, 89, 32, 124, 44, 10}   \* 'x', 'Y', ' ', '|', ',', line feed

OverrideStrings == UNION {[1..n -> OverrideAlphabet] : n \in 0..MaxOverrideLen}

\* the items of an accentWords array
OverrideItems == {<<>>, <<32>>, <<120>>, <<32, 89, 32>>, <<120, 124, 89>>}

OverrideArrays == UNION {[1..n -> OverrideItems] : n \in 0..3}

Overrides ==
    {NoOverride} \cup {StringOverride(o) : o \in OverrideStrings}
                 \cup {ArrayOverride(a) : a \in OverrideArrays}

\* overrides from which no word comes
EmptyOverrides ==
    {NoOverride, StringOverride(<<>>), StringOverride(<<32, 44, 124>>), ArrayOverride(<<>>),
     ArrayOverride(<<<<>>, <<32>>>>)}

\* every title with the wordless overrides, and the titles written out with every override
PrimaryWordsInputs ==
    ((ShortTitles \cup EdgeTitles) \X EmptyOverrides) \cup (({<<>>} \cup EdgeTitles) \X Overrides)

CallGetPrimaryWords ==
    /\ call = NoCall
    /\ \E input \in PrimaryWordsInputs :
        /\ call' = [op |-> "getPrimaryWords", value |-> input[1], override |-> input[2]]
        /\ ret' = getPrimaryWords(input[1], input[2])
    /\ UNCHANGED <<pickVars, renderVars>>

\* the caller takes the value; the next call may begin
Return ==
    /\ call # NoCall
    /\ call' = NoCall
    /\ ret' = <<>>
    /\ UNCHANGED <<pickVars, renderVars>>

NextPure ==
    \/ CallHashString
    \/ CallGetAccentColor
    \/ CallHexToRgb
    \/ CallRgbToHex
    \/ CallMixHexColors
    \/ CallHexToRgba
    \/ CallGetInitials
    \/ CallGetPrimaryWords
    \/ Return

SpecPure == Init /\ [][NextPure]_vars

-----------------------------------------------------------------------------
(* Claims about pickAccentColor, under Spec / FairSpec *)

\* a pickAccentColor call of this render has returned; frontmatter, offset, accent and
\* usedBefore are those of that call
Returned == pc = "idle" /\ count > 0

\* the hex pattern as the specification words it: '#' and 3 or 6 hex digits, either case
HexCodes == (48..57) \cup (97..102) \cup (65..70)
SpecHexPattern(s) ==
    /\ s # Undefined
    /\ \E n \in {3, 6} : Len(s) = n + 1
    /\ s # <<>> /\ s[1] = 35
    /\ \A i \in 2..Len(s) : s[i] \in HexCodes

\* C1: an item whose accentColor is absent or is no valid hex colour gets a colour that was
\* not in the used-set when its call began, unless all 10 palette colours were in it.
C1_FreshUnlessExhausted ==
    (Returned /\ ~SpecHexPattern(frontmatter.accentColor) /\ ~(PaletteColors \subseteq usedBefore))
        => accent \notin usedBefore

\* C2: an item whose accentColor is a valid hex colour gets exactly that colour whatever the
\* used-set holds, without any probing, and the colour is in the used-set afterwards.
C2_ExplicitWins ==
    /\ (pc = "loop") => ~SpecHexPattern(frontmatter.accentColor)
    /\ (Returned /\ SpecHexPattern(frontmatter.accentColor)) =>
          /\ accent = frontmatter.accentColor
          /\ offset = 0
          /\ accent \in usedAccentColors
          /\ usedAccentColors = usedBefore \cup {accent}

\* an explicit colour outside the palette, picked while already in the used-set
C2_Witness ==
    /\ Returned
    /\ SpecHexPattern(frontmatter.accentColor)
    /\ frontmatter.accentColor \notin PaletteColors
    /\ frontmatter.accentColor \in usedBefore

\* C3: the probing loop makes at most paletteSize - 1 = 9 increments of offset (offset never
\* exceeds 9), and every started loop ends: the pick returns.
C3_LoopTerminates ==
    /\ [](offset <= paletteSize - 1)
    /\ (pc = "loop") ~> (pc = "idle")

\* a pick that returned after all 9 increments
C3_Witness == Returned /\ offset = paletteSize - 1 /\ ~IsExplicit(frontmatter)

\* palette index of a title at a probing offset
ProbeColor(title, off) ==
    accentPalette[((WideMod(hashString(title), paletteSize) + off) % paletteSize) + 1]

\* C4: in a render whose items all lack an accentColor, the first 10 items get 10 pairwise
\* distinct palette colours (each one new to the used-set, which grows to the item count), and
\* every later item still gets a palette colour: a duplicate, the one at offset paletteSize - 1
\* from its hash-based index.
C4_ElevenItems ==
    (Returned /\ ~explicitSeen) =>
        /\ accent \in PaletteColors
        /\ usedAccentColors \subseteq PaletteColors
        /\ IF count <= paletteSize
           THEN /\ accent \notin usedBefore
                /\ Cardinality(usedAccentColors) = count
           ELSE /\ accent \in usedBefore
                /\ offset = paletteSize - 1
                /\ accent = ProbeColor(frontmatter.title, paletteSize - 1)
                /\ Cardinality(usedAccentColors) = paletteSize

\* the 11th item of a render without any accentColor has its colour
C4_Witness == Returned /\ ~explicitSeen /\ count = paletteSize + 1

-----------------------------------------------------------------------------
(* Claims about the helpers, under SpecPure *)

\* the hash as the specification words it: fold hash*31 + code unit from 0, modulo 2^32
\* (here the residue 0 .. 2^32 - 1 after the first n code units, as <<hi, lo>>)
RECURSIVE Fold31(_, _)
Fold31(s, n) ==
    IF n = 0 THEN <<0, 0>>
    ELSE LET h == Fold31(s, n - 1)
             lo == h[2] * 31 + s[n]
             hi == h[1] * 31 + (lo \div 65536)
         IN  <<hi % 65536, lo % 65536>>

\* absolute value of the residue u read as a signed 32-bit integer
SignedAbs(u) ==
    IF u[1] < 32768 THEN u
    ELSE IF u[2] = 0 THEN <<65536 - u[1], 0>>
    ELSE <<65535 - u[1], 65536 - u[2]>>

RefHash(s) == SignedAbs(Fold31(s, Len(s)))

\* RefHash(s) mod 10   (65536 mod 10 = 6)
RefHashMod10(s) == (((RefHash(s)[1] % 10) * 6) + (RefHash(s)[2] % 10)) % 10

\* C5: getAccentColor returns preferred unchanged (no case or length normalisation) whenever
\* preferred matches the hex pattern, for every key and offset.
C5_PreferredUnchanged ==
    (call.op = "getAccentColor" /\ SpecHexPattern(call.preferred)) => ret = call.preferred

\* a 3-digit upper-case colour handed in with a non-zero offset
C5_Witness ==
    /\ call.op = "getAccentColor"
    /\ call.preferred = <<35, 70, 70, 70>>
    /\ call.position > 0
    /\ ret = <<35, 70, 70, 70>>

\* C6: when preferred is absent, empty or no valid hex colour, getAccentColor returns
\* palette[(hashString(key) mod 10 + offset) mod 10], one of the 10 palette colours.
C6_PaletteFallback ==
    (call.op = "getAccentColor" /\ ~SpecHexPattern(call.preferred)) =>
        /\ ret = accentPalette[((RefHashMod10(call.key) + call.position) % 10) + 1]
        /\ ret \in PaletteColors

\* a non-empty invalid colour, an offset past the palette's end, a key that wraps
C6_Witness ==
    /\ call.op = "getAccentColor"
    /\ call.preferred = <<114, 101, 100>>
    /\ call.position > paletteSize
    /\ call.key = <<120, 102, 106, 102, 120, 116, 102>>
    /\ ret = accentPalette[((8 + call.position) % 10) + 1]

\* C8: hashString(s) is the absolute value of the fold hash*31 + code unit wrapped to a signed
\* 32-bit integer, and is never negative, also when the wrapped value is -2^31.
C8_HashIsAbsOfFold ==
    (call.op = "hashString") =>
        /\ ret = RefHash(call.value)
        /\ ret[1] >= 0
        /\ ret[2] \in 0..65535

\* a key whose fold wraps to -2^31: the result is 2^31
C8_Witness ==
    /\ call.op = "hashString"
    /\ Fold31(call.value, Len(call.value)) = <<32768, 0>>
    /\ ret = <<32768, 0>>

\* C9: for integer channels in 0..255, hexToRgb(rgbToHex(rgb)) is that triple, and rgbToHex
\* gives '#' and six lower-case hex digits.
C9_RoundTrip ==
    (/\ call.op = "rgbToHex"
     /\ call.rgb.r \in 0..255 /\ call.rgb.g \in 0..255 /\ call.rgb.b \in 0..255) =>
        /\ hexToRgb(ret) = call.rgb
        /\ Len(ret) = 7
        /\ ret[1] = 35
        /\ \A i \in 2..7 : ret[i] \in (48..57) \cup (97..102)

\* a triple with a one-digit, a zero and a two-digit channel: '#0a00ff'
C9_Witness ==
    /\ call.op = "rgbToHex"
    /\ call.rgb = [r |-> 10, g |-> 0, b |-> 255]
    /\ ret = <<35, 48, 97, 48, 48, 102, 102>>

\* C10: input that fails the hex pattern never raises: hexToRgb returns null, mixHexColors
\* returns its first colour unchanged when either colour fails, hexToRgba returns its colour
\* unchanged.
C10_InvalidHexDegrades ==
    /\ (call.op = "hexToRgb" /\ ~SpecHexPattern(call.hex)) => ret = Null
    /\ (call.op = "mixHexColors"
          /\ (~SpecHexPattern(call.color) \/ ~SpecHexPattern(call.mixWith))) => ret = call.color
    /\ (call.op = "hexToRgba" /\ ~SpecHexPattern(call.color)) => ret = call.color

\* a valid first colour mixed with 'not-a-color'
C10_Witness ==
    /\ call.op = "mixHexColors"
    /\ SpecHexPattern(call.color)
    /\ call.mixWith = <<110, 111, 116, 45, 97, 45, 99, 111, 108, 111, 114>>
    /\ ret = call.color

-----------------------------------------------------------------------------
(* Claims about the render, under SpecRender *)

\* C7: every render starts with an empty used-set, so two renders of the same ordered list
\* of posts give the same accent colour to every card, whatever the render before assigned.
C7_RendersIndependent ==
    /\ (rpc = "featured") => usedAccentColors = {}
    /\ (rpc = "begin" /\ renders >= 2) => assigned = prevAssigned

\* a second render done, in which some card without accentColor was moved off its
\* offset-0 colour by the cards before it
C7_Witness ==
    /\ rpc = "begin"
    /\ renders >= 2
    /\ \E i \in 1..Len(assigned) :
          /\ posts[assigned[i][1]].accentColor = Undefined
          /\ assigned[i][2] # getAccentColor(Undefined, posts[assigned[i][1]].title, 0)

-----------------------------------------------------------------------------
(* Initials and headline words *)

\* the maximal runs of code units of s outside seps, by the index at which each begins
RunStarts(s, seps) == {i \in 1..Len(s) : s[i] \notin seps /\ (i = 1 \/ s[i - 1] \in seps)}

\* the run beginning at index i
RunAt(s, seps, i) ==
    LET stops == {j \in i..Len(s) : s[j] \notin seps /\ (j = Len(s) \/ s[j + 1] \in seps)}
    IN  SubSeq(s, i, CHOOSE j \in stops : \A k \in stops : j <= k)

\* the runs in the order in which they stand in s
Runs(s, seps) ==
    LET starts == RunStarts(s, seps)
    IN  [n \in 1..Cardinality(starts) |->
            RunAt(s, seps, CHOOSE i \in starts : Cardinality({j \in starts : j <= i}) = n)]

\* the words of a name or title as the specification counts them
WordsOf(s) == Runs(s, WhiteSpace)

\* which characters make up the initials, and that they are uppercased
C11_InitialsByWords ==
    call.op = "getInitials" =>
        LET words == WordsOf(call.value)
        IN  /\ Len(words) = 0 => ret = <<84, 69, 78>>
            /\ Len(words) = 1 =>
                ret = ToUpperCase(IF Len(words[1]) = 1 THEN <<words[1][1], words[1][1]>>
                                  ELSE <<words[1][1], words[1][2]>>)
            /\ Len(words) >= 2 => ret = ToUpperCase(<<words[1][1], words[2][1]>>)

\* C11: getInitials gives 'TEN' for a name without words, the first two characters of the only
\* word (one character doubled) for a one-word name, the first characters of the first two
\* words otherwise, always uppercased, and exactly 2 characters for every name with a word
C11_InitialsContract ==
    /\ C11_InitialsByWords
    /\ (call.op = "getInitials" /\ Len(WordsOf(call.value)) >= 1) => Len(ret) = 2

\* the words an accentWords override yields as the specification words it: a string is cut at
\* runs of '|', ',' and line feed, an array is taken item by item; each piece is trimmed and
\* the empty ones are dropped
OverrideWords(override) ==
    IF override.kind = "undefined" THEN <<>>
    ELSE LET pieces == IF override.kind = "string" THEN Runs(override.value, {124, 44, 10})
                       ELSE override.items
         IN  SelectSeq([i \in DOMAIN pieces |-> Trim(pieces[i])], LAMBDA w : Len(w) > 0)

\* C12: getPrimaryWords gives the first two override words (the second '' when there is one
\* only) whatever the title when the override yields a word; otherwise ['TEN', 'Blog'] for a
\* title without words, the first two dash-separated parts of a one-word title when it has two
\* and [word, ''] when it has not, and the first two words of a title of several words
C12_PrimaryWords ==
    call.op = "getPrimaryWords" =>
        LET chosen == OverrideWords(call.override)
            words == WordsOf(call.value)
        IN  /\ Len(chosen) >= 1 =>
                ret = <<chosen[1], IF Len(chosen) >= 2 THEN chosen[2] ELSE <<>>>>
            /\ (Len(chosen) = 0 /\ Len(words) = 0) =>
                ret = <<<<84, 69, 78>>, <<66, 108, 111, 103>>>>
            /\ (Len(chosen) = 0 /\ Len(words) = 1) =>
                LET parts == Runs(words[1], {45, 8211, 8212})
                IN  IF Len(parts) >= 2 THEN ret = <<parts[1], parts[2]>>
                    ELSE ret = <<words[1], <<>>>>
            /\ (Len(chosen) = 0 /\ Len(words) >= 2) => ret = <<words[1], words[2]>>

\* 'Self-Driving' under an override ' ,|' of blanks and separators only: no override word,
\* one title word, two dash-separated parts
C12_Witness ==
    /\ call.op = "getPrimaryWords"
    /\ call.value = <<83, 101, 108, 102, 45, 68, 114, 105, 118, 105, 110, 103>>
    /\ call.override = StringOverride(<<32, 44, 124>>)
    /\ ret = <<<<83, 101, 108, 102>>, <<68, 114, 105, 118, 105, 110, 103>>>>

-----------------------------------------------------------------------------
(* The order of the calls in a render *)

\* the posts whose colour has been resolved in this render, in the order of the calls
Called == [i \in 1..Len(assigned) |-> assigned[i][1]]

\* id is the featured post as the specification words it: the newest post with
\* featured === true, or the newest post of all when no post is flagged
NewestFlaggedOrNewest(id) ==
    LET flagged == {j \in 1..Len(posts) : posts[j].featured = TRUE}
        among == IF flagged # {} THEN flagged ELSE 1..Len(posts)
    IN  id \in among /\ \A j \in among : posts[id].date >= posts[j].date

\* C13: in a render, pickAccentColor is called once per post: first for the featured post
\* (the newest flagged post, or the newest post when none is flagged), then for the other
\* posts from newest to oldest; the featured post is resolved against an empty used-set, gets
\* getAccentColor(accentColor, title, 0), and is not among the standard posts
C13_CallOrder ==
    /\ \A i, j \in 1..Len(Called) : Called[i] = Called[j] => i = j
    /\ (rpc = "begin" /\ renders >= 1) => {Called[i] : i \in 1..Len(Called)} = 1..Len(posts)
    /\ Len(Called) >= 1 =>
        /\ NewestFlaggedOrNewest(Called[1])
        /\ assigned[1][2] =
              getAccentColor(posts[Called[1]].accentColor, posts[Called[1]].title, 0)
    /\ \A i, j \in 2..Len(Called) : i < j => posts[Called[i]].date >= posts[Called[j]].date
    /\ rpc = "featuredCard" =>
        /\ usedBefore = {}
        /\ NewestFlaggedOrNewest(featuredPost)
        /\ frontmatter = Frontmatter(posts, featuredPost)
    /\ rpc \in {"standard", "standardCard"} =>
        /\ \A i \in 1..Len(standardPosts) : standardPosts[i] # featuredPost
        /\ posts # <<>> => (Len(Called) >= 1 /\ Called[1] = featuredPost)
    /\ rpc = "standardCard" => frontmatter = Frontmatter(posts, standardPosts[cursor])

\* a finished render of three posts in which the featured post is a flagged post older than
\* an unflagged one, so that the first call is not for the newest post
C13_Witness ==
    /\ rpc = "begin"
    /\ renders >= 1
    /\ Len(Called) = 3
    /\ posts[Called[1]].featured = TRUE
    /\ \E i \in 2..3 : posts[Called[i]].date > posts[Called[1]].date

-----------------------------------------------------------------------------
(* The used-set of a render *)

\* C14: during a render the used-set is exactly the set of the colours the pickAccentColor
\* calls of this render have returned, it loses no colour while the render goes on, and it
\* never holds more colours than calls have returned
C14_UsedIsReturned ==
    /\ [](/\ usedAccentColors = returned
          /\ Cardinality(usedAccentColors) <= count)
    /\ [][count' >= count => usedAccentColors \subseteq usedAccentColors']_vars

\* eleven calls have returned and some colour was returned more than once
C14_Witness ==
    /\ pc = "idle"
    /\ count >= 11
    /\ usedAccentColors = returned
    /\ Cardinality(usedAccentColors) < count
    /\ accent \in usedBefore

====
